---- MODULE Spec2Model ----
(***************************************************************************)
(* NaiveDB, src/table.h: the Table record store (data file + header/index *)
(* file + in-memory header) and its joins, at byte level.                 *)
(*                                                                         *)
(* Files are sequences of bytes (0..255).  A text value (std::string) is  *)
(* a sequence of character codes.  Integers of the model stay within 32   *)
(* bits; an 8-byte field holds their sign extension.                      *)
(***************************************************************************)
EXTENDS Integers, Sequences, FiniteSets, TLC

\* ------------------------------------------------------------------ bounds

\* Rows a table's header may hold before the model stops inserting into it.
MaxRows == 2

\* ------------------------------------------------------- program constants

\* sizeof(RegistryHeader::table_name)
TABLE_NAME_SIZE == 255
\* sizeof(RegistryHeader::registry_size), an unsigned
REGISTRY_SIZE_SIZE == 4
\* sizeof(RegistryHeader::time_stamp), a time_t
TIME_STAMP_SIZE == 8
\* sizeof(HeaderFile::_id) and sizeof(HeaderFile::registry_position), long long
LONG_LONG_SIZE == 8

\* Table::HEADER_SIZE as the constructor computes it.
HEADER_SIZE == TABLE_NAME_SIZE + REGISTRY_SIZE_SIZE + TIME_STAMP_SIZE

\* ------------------------------------------------------------- the tables

\* The two tables of the join example in the doc comment of nestedLoopJoin.
Tables == {"Person", "Worked"}

\* this->name as characters.
NameChars(t) ==
    IF t = "Person" THEN <<80, 101, 114, 115, 111, 110>>
                    ELSE <<87, 111, 114, 107, 101, 100>>

\* this->path = name + ".dat"
Path(t) == t \o ".dat"

\* this->header_file_path = name + "_h.dat"
HeaderFilePath(t) == t \o "_h.dat"

Paths == {Path(t) : t \in Tables} \cup {HeaderFilePath(t) : t \in Tables}

\* The schema set on each table (Schema and SchemaCol are declared in
\* schema.h): column 0 is the INT64 _id, then the columns of the example.
SchemaCols(t) ==
    IF t = "Person"
    THEN << [name |-> "_id",  type |-> "INT64", size |-> 8],
            [name |-> "dre",  type |-> "INT32", size |-> 4],
            [name |-> "name", type |-> "CHAR",  size |-> 4] >>
    ELSE << [name |-> "_id",       type |-> "INT64",       size |-> 8],
            [name |-> "id_person", type |-> "FOREIGN_KEY", size |-> 8] >>

RECURSIVE SumSizes(_)
SumSizes(cols) ==
    IF cols = <<>> THEN 0 ELSE Head(cols).size + SumSizes(Tail(cols))

\* schema.getSize(): the payload width.
SchemaSize(t) == SumSizes(SchemaCols(t))

\* header.registry_size = HEADER_SIZE + schema.getSize()
RegistrySize(t) == HEADER_SIZE + SchemaSize(t)

\* ------------------------------------------------------------ byte codecs

\* Byte k (0 = least significant) of the two's complement of n.
ByteOf(n, k) ==
    IF k < 4 THEN (n \div (256 ^ k)) % 256
             ELSE IF n < 0 THEN 255 ELSE 0

\* reinterpret_cast<char *>(&value) over w bytes, little endian.
LE(n, w) == [k \in 1..w |-> ByteOf(n, k - 1)]

\* The signed 32-bit integer held by four little-endian bytes.
FromLE32(b) ==
    b[1] + 256 * b[2] + 65536 * b[3]
      + 16777216 * (IF b[4] >= 128 THEN b[4] - 256 ELSE b[4])

\* Whether eight little-endian bytes hold a value that fits 32 bits.
Fits32(b) ==
    LET ext == IF b[4] >= 128 THEN 255 ELSE 0
    IN  \A k \in 5..8 : b[k] = ext

\* strncpy(value, s, n): the characters of s, cut to n, zero-filled to n.
Strncpy(s, n) == [k \in 1..n |-> IF k <= Len(s) THEN s[k] ELSE 0]

IsDigit(c) == c >= 48 /\ c <= 57
\* isspace
IsSpace(c) == c = 32 \/ (c >= 9 /\ c <= 13)

RECURSIVE SkipSpaces(_)
SkipSpaces(s) ==
    IF s # <<>> /\ IsSpace(Head(s)) THEN SkipSpaces(Tail(s)) ELSE s

RECURSIVE DigitsValue(_, _)
DigitsValue(s, acc) ==
    IF s # <<>> /\ IsDigit(Head(s))
    THEN DigitsValue(Tail(s), 10 * acc + (Head(s) - 48))
    ELSE acc

\* strtol-style parse shared by atoi and stoll: leading spaces, a sign, then
\* digits; what follows the digits is ignored. conv: a digit was consumed.
ParseInteger(s) ==
    LET t    == SkipSpaces(s)
        neg  == t # <<>> /\ Head(t) = 45
        sgn  == t # <<>> /\ (Head(t) = 45 \/ Head(t) = 43)
        d    == IF sgn THEN Tail(t) ELSE t
        conv == d # <<>> /\ IsDigit(Head(d))
        v    == DigitsValue(d, 0)
    IN  [conv |-> conv, value |-> IF neg THEN 0 - v ELSE v]

RECURSIVE NatText(_)
NatText(n) ==
    IF n < 10 THEN <<48 + n>> ELSE NatText(n \div 10) \o <<48 + (n % 10)>>

\* stream << value for an integer: its decimal text.
IntText(n) == IF n < 0 THEN <<45>> \o NatText(0 - n) ELSE NatText(n)

RECURSIVE UpToNul(_)
UpToNul(b) ==
    IF b = <<>> \/ Head(b) = 0 THEN <<>> ELSE <<Head(b)>> \o UpToNul(Tail(b))

\* ------------------------------------------------------------------ state

VARIABLES
    fs,       \* the file system: path -> [present, bytes]
    header,   \* Table::header of each table: sequence of <<_id, registry_position>>
    pc,       \* where the running insert is ("idle": no call in progress)
    cur,      \* the frame of the running insert
    result,   \* what the last completed call returned or threw
    pre,      \* the table of the last call when that call started: whether
              \* its files were there, their lengths, the header's size
    dropped,  \* drop() was called on the Table object
    log       \* per table, per insert call since its files were last absent:
              \* the row passed, whether the call returned, the _id it took

vars == <<fs, header, pc, cur, result, pre, dropped, log>>

NoFile == [present |-> FALSE, bytes |-> <<>>]

NoFrame == [t |-> "", row |-> <<>>, given |-> <<>>, id |-> 0, pos |-> 0, col |-> 0]

EmptyFs == [p \in Paths |-> NoFile]

NoResult == [op |-> "none", t |-> "", arg |-> <<>>, status |-> "ok", ret |-> <<>>]

FileStat(f, path) == [present |-> f[path].present, size |-> Len(f[path].bytes)]

Snapshot(t) ==
    [dat |-> FileStat(fs, Path(t)), idx |-> FileStat(fs, HeaderFilePath(t)),
     rows |-> Len(header[t])]

\* OpenAppend with ios::trunc in the place of ios::app.
OpenAppend_Truncating(f, path) ==
    [f EXCEPT ![path] = [present |-> TRUE, bytes |-> <<>>]]

\* ofstream::open(path, ios::binary | ios::app) creates a missing file.
OpenAppend(f, path) ==
    IF f[path].present THEN f
    ELSE [f EXCEPT ![path] = [present |-> TRUE, bytes |-> <<>>]]

\* file.write(bytes) on a stream opened with ios::app.
FileWrite(f, path, bytes) ==
    [f EXCEPT ![path].bytes = @ \o bytes]

Init ==
    /\ fs = EmptyFs
    /\ header = [t \in Tables |-> <<>>]
    /\ pc = "idle"
    /\ cur = NoFrame
    /\ result = NoResult
    /\ pre = [dat |-> FileStat(EmptyFs, Path("Person")),
              idx |-> FileStat(EmptyFs, HeaderFilePath("Person")), rows |-> 0]
    /\ dropped = [t \in Tables |-> FALSE]
    /\ log = [t \in Tables |-> <<>>]

\* ----------------------------------------------------------------- inputs

\* The text values the callers pass: "9", "10", "Jo", "x".
Txt9   == <<57>>
Txt10  == <<49, 48>>
TxtJo  == <<74, 111>>
TxtX   == <<120>>

\* The rows passed to insert (primary key not included): rows that match the
\* schema, a row one value short, and a row whose FOREIGN_KEY text is no
\* number.
RowInputs(t) ==
    IF t = "Person"
    THEN { <<Txt9, TxtJo>>, <<Txt10>> }
    ELSE { <<Txt9>>, <<TxtX>> }

\* What time(&header.time_stamp) stores. No operation reads it back: getRow
\* reads the registry header and drops it.
TimeStamps == {1500000000}

\* ----------------------------------------------------------------- insert

\* InsertOnHeaderFile with the two writes in the other order.
InsertOnHeaderFile_PositionFirst(f, t, id, pos) ==
    FileWrite(OpenAppend(f, HeaderFilePath(t)), HeaderFilePath(t),
              LE(pos, LONG_LONG_SIZE) \o LE(id, LONG_LONG_SIZE))

\* Table::insertOnHeaderFile: the pair is appended to the header file and
\* pushed on the in-memory header.
InsertOnHeaderFile(f, t, id, pos) ==
    FileWrite(OpenAppend(f, HeaderFilePath(t)), HeaderFilePath(t),
              LE(id, LONG_LONG_SIZE) \o LE(pos, LONG_LONG_SIZE))

\* NextId with ids counted from 1.
NextId_FromOne(h) == Len(h) + 1

\* header_file._id = this->header->size()
NextId(h) == Len(h)

\* file.tellp() right after the open with ios::app: the end of the file
\* (where an append-mode stream starts is implementation-defined; glibc
\* puts it at the end, which the doc comment of HeaderFile relies on).
Tellp(f, path) == Len(f[path].bytes)

\* Table::insert, lines 289-297: the data file is opened for appending, the
\* _id is the header's size, the position is the stream's, and the pair goes
\* to the header file and the header.
InsertBegin(t, row) ==
    /\ pc = "idle"
    /\ Len(header[t]) < MaxRows
    /\ LET f1  == OpenAppend(fs, Path(t))
           id  == NextId(header[t])
           pos == Tellp(f1, Path(t))
       IN  /\ fs' = InsertOnHeaderFile(f1, t, id, pos)
           /\ header' = [header EXCEPT ![t] = Append(@, <<id, pos>>)]
           /\ cur' = [t |-> t, row |-> row, given |-> row,
                      id |-> id, pos |-> pos, col |-> 0]
    /\ pre' = Snapshot(t)
    /\ pc' = "registry_header"
    /\ result' = NoResult
    /\ UNCHANGED <<dropped, log>>

\* Table::insert, lines 299-319: the registry header is written and the _id
\* text is put in front of the row.
InsertRegistryHeader(ts) ==
    /\ pc = "registry_header"
    /\ fs' = FileWrite(fs, Path(cur.t),
                       Strncpy(NameChars(cur.t), TABLE_NAME_SIZE)
                         \o LE(RegistrySize(cur.t), REGISTRY_SIZE_SIZE)
                         \o LE(ts, TIME_STAMP_SIZE))
    /\ cur' = [cur EXCEPT !.row = <<IntText(cur.id)>> \o @]
    /\ pc' = "columns"
    /\ UNCHANGED <<header, result, pre, dropped, log>>

\* Table::convertAndSave: the bytes written for one value, or the exception
\* std::stoll throws when no digit can be converted. atoi gives 0 there.
ConvertAndSave(value, col) ==
    LET p == ParseInteger(value)
    IN  CASE col.type = "INT32" ->
               [thrown |-> "none",
                bytes |-> LE(IF p.conv THEN p.value ELSE 0, col.size)]
          [] col.type = "CHAR" ->
               [thrown |-> "none", bytes |-> Strncpy(value, col.size)]
          [] col.type \in {"INT64", "FOREIGN_KEY"} ->
               IF p.conv
               THEN [thrown |-> "none", bytes |-> LE(p.value, col.size)]
               ELSE [thrown |-> "invalid_argument", bytes |-> <<>>]

\* The call ends: the frame is gone and the caller holds what it returned
\* or threw. The ofstream of insert is closed by close() or, when the call
\* throws, by its destructor: what was written stays in the file.
EndInsert(status, ret) ==
    /\ result' = [op |-> "insert", t |-> cur.t, arg |-> cur.given,
                  status |-> status, ret |-> ret]
    /\ log' = [log EXCEPT ![cur.t] =
                  Append(@, [row |-> cur.given, returned |-> status = "ok",
                             id |-> cur.id])]
    /\ cur' = NoFrame
    /\ pc' = "idle"

\* Table::insert, lines 326-331, one turn of the loop over the row:
\* schema_cols->at throws past the schema, convertAndSave may throw.
InsertColumn ==
    /\ pc = "columns"
    /\ cur.col < Len(cur.row)
    /\ IF cur.col >= Len(SchemaCols(cur.t))
       THEN /\ EndInsert("out_of_range", <<>>)
            /\ UNCHANGED fs
       ELSE LET w == ConvertAndSave(cur.row[cur.col + 1],
                                    SchemaCols(cur.t)[cur.col + 1])
            IN  IF w.thrown # "none"
                THEN /\ EndInsert(w.thrown, <<>>)
                     /\ UNCHANGED fs
                ELSE /\ fs' = FileWrite(fs, Path(cur.t), w.bytes)
                     /\ cur' = [cur EXCEPT !.col = @ + 1]
                     /\ UNCHANGED <<pc, result, log>>
    /\ UNCHANGED <<header, pre, dropped>>

\* Table::insert, lines 334-336: the loop is over, the file is closed and
\* the _id returned.
InsertReturn ==
    /\ pc = "columns"
    /\ cur.col = Len(cur.row)
    /\ EndInsert("ok", <<cur.id>>)
    /\ UNCHANGED <<fs, header, pre, dropped>>

Insert ==
    \/ \E t \in Tables : \E row \in RowInputs(t) : InsertBegin(t, row)
    \/ \E ts \in TimeStamps : InsertRegistryHeader(ts)
    \/ InsertColumn
    \/ InsertReturn

\* ------------------------------------------------------------------ reads

\* What an object that was never written holds: the bytes of a buffer a
\* failed file.read left alone, and whatever lies behind a char array.
Garbage == {0, 88}

\* file.read(buffer, n) at offset a of the stream getRow opened: the bytes
\* the file holds there; past its end (or with the stream failed: no file,
\* a negative seek) the buffer keeps what it held, g.
FileRead(f, path, seekpos, a, n, g) ==
    LET good == f[path].present /\ seekpos >= 0
        b    == f[path].bytes
    IN  [k \in 1..n |-> IF good /\ a + k <= Len(b) THEN b[a + k] ELSE g]

\* stream << value of getRow, by the column's type. A long long beyond 32
\* bits is kept as its bytes behind the mark -1 (its decimal text is as
\* injective); a char array with no terminator runs on into what follows it.
DecodeCol(b, col, g) ==
    CASE col.type = "INT32" -> IntText(FromLE32(b))
      [] col.type = "CHAR" ->
           IF \E k \in 1..Len(b) : b[k] = 0 THEN UpToNul(b)
           ELSE IF g = 0 THEN b ELSE b \o <<g>>
      [] col.type \in {"INT64", "FOREIGN_KEY"} ->
           IF Fits32(b) THEN IntText(FromLE32(SubSeq(b, 1, 4)))
                        ELSE <<-1>> \o b

\* The offset of column c (1-based) within a registry.
ColOffset(t, c) == HEADER_SIZE + SumSizes(SubSeq(SchemaCols(t), 1, c - 1))

\* Table::getRow: the registry header is read and dropped, then one text
\* per column of the schema.
GetRow(f, t, pos, g) ==
    [c \in 1..Len(SchemaCols(t)) |->
        DecodeCol(FileRead(f, Path(t), pos, pos + ColOffset(t, c),
                           SchemaCols(t)[c].size, g),
                  SchemaCols(t)[c], g)]

\* pair < pair, as std::pair compares: first, then second.
PairLess(a, b) == a[1] < b[1] \/ (a[1] = b[1] /\ a[2] < b[2])

\* numeric_limits<long long>::min(): within the model's 32-bit integers,
\* a value below every position.
LLONG_MIN_ == -2147483647

\* std::lower_bound over h[first+1 .. first+len] (0-based first): the
\* halving search of the standard library; the number of entries before
\* the position found.
RECURSIVE LowerBound(_, _, _, _)
LowerBound(h, first, len, val) ==
    IF len <= 0 THEN first
    ELSE LET half == len \div 2
             mid  == first + half
         IN  IF PairLess(h[mid + 1], val)
             THEN LowerBound(h, mid + 1, len - half - 1, val)
             ELSE LowerBound(h, first, half, val)

\* Table::getRowById: header->at(idx) throws std::out_of_range when the
\* search ends at header->end(); a pair with another _id gives the empty row.
GetRowById(f, h, t, id, g) ==
    LET idx == LowerBound(h, 0, Len(h), <<id, LLONG_MIN_>>)
    IN  IF idx >= Len(h)
        THEN [status |-> "out_of_range", ret |-> <<>>]
        ELSE IF h[idx + 1][1] = id
             THEN [status |-> "ok", ret |-> GetRow(f, t, h[idx + 1][2], g)]
             ELSE [status |-> "ok", ret |-> <<>>]

\* The positions the callers pass to getRow: those of the header, and the
\* end of the file, where no registry starts.
Positions(t) ==
    {header[t][i][2] : i \in 1..Len(header[t])} \cup {Len(fs[Path(t)].bytes)}

\* The ids the callers pass to getRowById: one below the first, those of the
\* header, one past the last.
Ids(t) == -1..Len(header[t])

\* ReadAt through a stream opened for output too, which creates the data
\* file when it is missing.
ReadAt_CreatesFile(t, pos, g) ==
    /\ pc = "idle"
    /\ result' = [op |-> "getRow", t |-> t, arg |-> <<pos>>,
                  status |-> "ok", ret |-> GetRow(fs, t, pos, g)]
    /\ pre' = Snapshot(t)
    /\ fs' = [fs EXCEPT ![Path(t)] = [present |-> TRUE, bytes |-> @.bytes]]
    /\ UNCHANGED <<header, pc, cur, dropped, log>>

\* A call of getRow.
ReadAt(t, pos, g) ==
    /\ pc = "idle"
    /\ result' = [op |-> "getRow", t |-> t, arg |-> <<pos>>,
                  status |-> "ok", ret |-> GetRow(fs, t, pos, g)]
    /\ pre' = Snapshot(t)
    /\ UNCHANGED <<fs, header, pc, cur, dropped, log>>

\* A call of getRowById.
ReadById(t, id, g) ==
    /\ pc = "idle"
    /\ LET r == GetRowById(fs, header[t], t, id, g)
       IN  result' = [op |-> "getRowById", t |-> t, arg |-> <<id>>,
                      status |-> r.status, ret |-> r.ret]
    /\ pre' = Snapshot(t)
    /\ UNCHANGED <<fs, header, pc, cur, dropped, log>>

\* ------------------------------------------------------- drop and reopen

\* Drop without the remove of the header file.
Drop_KeepsHeaderFile(t) ==
    /\ pc = "idle"
    /\ fs' = [fs EXCEPT ![Path(t)] = NoFile]
    /\ header' = [header EXCEPT ![t] = <<>>]
    /\ dropped' = [dropped EXCEPT ![t] = TRUE]
    /\ log' = [log EXCEPT ![t] = <<>>]
    /\ result' = [op |-> "drop", t |-> t, arg |-> <<>>,
                  status |-> "ok", ret |-> <<>>]
    /\ pre' = Snapshot(t)
    /\ UNCHANGED <<pc, cur>>

\* Table::drop: both files are removed and the header cleared.
Drop(t) ==
    /\ pc = "idle"
    /\ fs' = [fs EXCEPT ![Path(t)] = NoFile, ![HeaderFilePath(t)] = NoFile]
    /\ header' = [header EXCEPT ![t] = <<>>]
    /\ dropped' = [dropped EXCEPT ![t] = TRUE]
    /\ log' = [log EXCEPT ![t] = <<>>]
    /\ result' = [op |-> "drop", t |-> t, arg |-> <<>>,
                  status |-> "ok", ret |-> <<>>]
    /\ pre' = Snapshot(t)
    /\ UNCHANGED <<pc, cur>>

\* LoadPairs that stops one pair early: the last pair of the file is not read.
RECURSIVE LoadPairs_StopsEarly(_, _)
LoadPairs_StopsEarly(b, a) ==
    IF a + 2 * LONG_LONG_SIZE >= Len(b) THEN <<>>
    ELSE << << FromLE32(SubSeq(b, a + 1, a + 4)),
               FromLE32(SubSeq(b, a + LONG_LONG_SIZE + 1, a + LONG_LONG_SIZE + 4)) >> >>
           \o LoadPairs_StopsEarly(b, a + 2 * LONG_LONG_SIZE)

\* LoadPairs that pushes a pair whose reads came short, the bytes not read
\* left at 0.
RECURSIVE LoadPairs_KeepsPartial(_, _)
LoadPairs_KeepsPartial(b, a) ==
    IF a >= Len(b) THEN <<>>
    ELSE LET c == b \o [k \in 1..(2 * LONG_LONG_SIZE) |-> 0]
         IN  << << FromLE32(SubSeq(c, a + 1, a + 4)),
                   FromLE32(SubSeq(c, a + LONG_LONG_SIZE + 1, a + LONG_LONG_SIZE + 4)) >> >>
                \o LoadPairs_KeepsPartial(b, a + 2 * LONG_LONG_SIZE)

\* Table::loadHeader from offset a on: pairs are read while both reads of a
\* pair succeed; a missing file fails the first read.
RECURSIVE LoadPairs(_, _)
LoadPairs(b, a) ==
    IF a + 2 * LONG_LONG_SIZE > Len(b) THEN <<>>
    ELSE << << FromLE32(SubSeq(b, a + 1, a + 4)),
               FromLE32(SubSeq(b, a + LONG_LONG_SIZE + 1, a + LONG_LONG_SIZE + 4)) >> >>
           \o LoadPairs(b, a + 2 * LONG_LONG_SIZE)

LoadHeader(f, t) ==
    IF f[HeaderFilePath(t)].present
    THEN LoadPairs(f[HeaderFilePath(t)].bytes, 0)
    ELSE <<>>

\* ~Table then Table::Table(name): the header is deleted, and a new one is
\* loaded from the header file.
Reopen(t) ==
    /\ pc = "idle"
    /\ result' = [op |-> "open", t |-> t, arg |-> <<>>,
                  status |-> "ok", ret |-> <<>>]
    /\ header' = [header EXCEPT ![t] = LoadHeader(fs, t)]
    /\ dropped' = [dropped EXCEPT ![t] = FALSE]
    /\ pre' = Snapshot(t)
    /\ UNCHANGED <<fs, pc, cur, log>>

\* ------------------------------------------------------------------ joins

\* schema.getColPosition(name) (schema.h): the 0-based place of the column.
ColPosition(t, name) ==
    (CHOOSE c \in 1..Len(SchemaCols(t)) : SchemaCols(t)[c].name = name) - 1

\* OuterLoop that leaves the last tuple of the outer relation out.
RECURSIVE OuterLoop_SkipsLast(_, _, _, _, _, _, _, _, _)
OuterLoop_SkipsLast(f, h, i, inner_row, inner_pos, outer, outer_pos, g, j) ==
    IF j + 1 >= Len(h[outer]) THEN <<>>
    ELSE LET outer_row == GetRow(f, outer, h[outer][j + 1][2], g)
         IN  (IF inner_row[inner_pos + 1] = outer_row[outer_pos + 1]
              THEN << <<h[i.t][i.n + 1][2], h[outer][j + 1][2]>> >>
              ELSE <<>>)
             \o OuterLoop_SkipsLast(f, h, i, inner_row, inner_pos, outer,
                                    outer_pos, g, j + 1)

\* Table::nestedLoopJoin, the loop over j from j on, for one inner tuple.
RECURSIVE OuterLoop(_, _, _, _, _, _, _, _, _)
OuterLoop(f, h, i, inner_row, inner_pos, outer, outer_pos, g, j) ==
    IF j >= Len(h[outer]) THEN <<>>
    ELSE LET outer_row == GetRow(f, outer, h[outer][j + 1][2], g)
         IN  (IF inner_row[inner_pos + 1] = outer_row[outer_pos + 1]
              THEN << <<h[i.t][i.n + 1][2], h[outer][j + 1][2]>> >>
              ELSE <<>>)
             \o OuterLoop(f, h, i, inner_row, inner_pos, outer, outer_pos, g, j + 1)

\* Table::nestedLoopJoin, the loop over i from i on.
RECURSIVE InnerLoop(_, _, _, _, _, _, _, _)
InnerLoop(f, h, inner, inner_pos, outer, outer_pos, g, i) ==
    IF i >= Len(h[inner]) THEN <<>>
    ELSE LET inner_row == GetRow(f, inner, h[inner][i + 1][2], g)
         IN  OuterLoop(f, h, [t |-> inner, n |-> i], inner_row, inner_pos,
                       outer, outer_pos, g, 0)
             \o InnerLoop(f, h, inner, inner_pos, outer, outer_pos, g, i + 1)

\* Table::nestedLoopJoin: the receiver is the inner table.
NestedLoopJoin(f, h, inner, outer, outer_column_name, inner_column_name, g) ==
    InnerLoop(f, h, inner, ColPosition(inner, inner_column_name),
              outer, ColPosition(outer, outer_column_name), g, 0)

\* The joins the callers ask for: the one of the doc comment, and one on the
\* _id of both tables with the tables the other way round.
JoinInputs ==
    { [inner |-> "Person", outer |-> "Worked",
       outer_column |-> "id_person", inner_column |-> "dre"],
      [inner |-> "Worked", outer |-> "Person",
       outer_column |-> "_id", inner_column |-> "_id"] }

\* A call of nestedLoopJoin.
FullJoin(q, g) ==
    /\ pc = "idle"
    /\ result' = [op |-> "nestedLoopJoin", t |-> q.inner,
                  arg |-> <<q.outer, q.outer_column, q.inner_column>>,
                  status |-> "ok",
                  ret |-> NestedLoopJoin(fs, header, q.inner, q.outer,
                                         q.outer_column, q.inner_column, g)]
    /\ pre' = Snapshot(q.inner)
    /\ UNCHANGED <<fs, header, pc, cur, dropped, log>>

\* IndexNestedLoopJoin whose loop over the outer relation starts at the
\* second tuple.
IndexNestedLoopJoin_FromSecond(f, h, inner, outer, outer_column_name, inner_column_name, inner_index, g) ==
    OuterLoop(f, h, [t |-> inner, n |-> inner_index],
              GetRow(f, inner, h[inner][inner_index + 1][2], g),
              ColPosition(inner, inner_column_name),
              outer, ColPosition(outer, outer_column_name), g, 1)

\* Table::indexNestedLoopJoin past the header->at(inner_index) of line 696:
\* the inner row is the one at inner_index of the header, the loop over the
\* outer relation is that of nestedLoopJoin.
IndexNestedLoopJoin(f, h, inner, outer, outer_column_name, inner_column_name, inner_index, g) ==
    OuterLoop(f, h, [t |-> inner, n |-> inner_index],
              GetRow(f, inner, h[inner][inner_index + 1][2], g),
              ColPosition(inner, inner_column_name),
              outer, ColPosition(outer, outer_column_name), g, 0)

\* The inner_index the callers pass: the places of the header, and the one
\* behind the last.
InnerIndexes(t) == 0..Len(header[t])

\* A call of indexNestedLoopJoin: header->at(inner_index) throws
\* std::out_of_range outside the header.
SeededJoin(q, p, g) ==
    /\ pc = "idle"
    /\ result' = [op |-> "indexNestedLoopJoin", t |-> q.inner,
                  arg |-> <<q.outer, q.outer_column, q.inner_column, p>>,
                  status |-> IF p < Len(header[q.inner]) THEN "ok"
                                                         ELSE "out_of_range",
                  ret |-> IF p < Len(header[q.inner])
                          THEN IndexNestedLoopJoin(fs, header, q.inner, q.outer,
                                                   q.outer_column,
                                                   q.inner_column, p, g)
                          ELSE <<>>]
    /\ pre' = Snapshot(q.inner)
    /\ UNCHANGED <<fs, header, pc, cur, dropped, log>>

Next ==
    \/ Insert
    \/ \E q \in JoinInputs, g \in Garbage : FullJoin(q, g)
    \/ \E t \in Tables, g \in Garbage : \E pos \in Positions(t) : ReadAt(t, pos, g)
    \/ \E t \in Tables, g \in Garbage : \E id \in Ids(t) : ReadById(t, id, g)
    \/ \E t \in Tables : Drop(t)
    \/ \E t \in Tables : Reopen(t)

Spec == Init /\ [][Next]_vars

\* The callers that join: inserts, drops and reopens of the two tables, and
\* both joins over them.
NextJoins ==
    \/ Insert
    \/ \E q \in JoinInputs, g \in Garbage : FullJoin(q, g)
    \/ \E q \in JoinInputs, g \in Garbage :
          \E p \in InnerIndexes(q.inner) : SeededJoin(q, p, g)
    \/ \E t \in Tables : Drop(t)
    \/ \E t \in Tables : Reopen(t)

SpecJoins == Init /\ [][NextJoins]_vars

\* The callers that read: inserts, and the four operations that read rows.
NextReaders ==
    \/ Insert
    \/ \E t \in Tables, g \in Garbage : \E pos \in Positions(t) : ReadAt(t, pos, g)
    \/ \E t \in Tables, g \in Garbage : \E id \in Ids(t) : ReadById(t, id, g)
    \/ \E q \in JoinInputs, g \in Garbage : FullJoin(q, g)
    \/ \E q \in JoinInputs, g \in Garbage :
          \E p \in InnerIndexes(q.inner) : SeededJoin(q, p, g)

SpecReaders == Init /\ [][NextReaders]_vars

\* ---------------------------------------------------------------- queries

\* Table::query(select, where_args, where_comparators, where_values): the
\* rows of the Cursor it returns. The result vector is declared, the method
\* body is a TODO, and the cursor is built on the vector as declared.
QueryVectors(f, h, t, select, where_args, where_comparators, where_values) ==
    <<>>

\* The queries the callers pass, as the vectors the parser of query(string)
\* hands on: "SELECT *", and "SELECT * WHERE _id=k" for the ids of the
\* header.
QueryInputs(t) ==
    { [select |-> <<"*">>, where_args |-> <<>>, where_comparators |-> <<>>,
       where_values |-> <<>>] }
    \cup { [select |-> <<"*">>, where_args |-> <<"_id">>,
            where_comparators |-> <<"=">>, where_values |-> <<k>>] :
              k \in 0..(Len(header[t]) - 1) }

\* A call of query(string): the text is parsed (no statement of the parser
\* throws or touches the table) and the vectors go to the other query.
Query(t, q) ==
    /\ pc = "idle"
    /\ result' = [op |-> "query", t |-> t,
                  arg |-> <<q.where_args, q.where_comparators, q.where_values>>,
                  status |-> "ok",
                  ret |-> QueryVectors(fs, header[t], t, q.select, q.where_args,
                                       q.where_comparators, q.where_values)]
    /\ pre' = Snapshot(t)
    /\ UNCHANGED <<fs, header, pc, cur, dropped, log>>

\* The callers that query: inserts, drops, reopens and queries.
NextQuery ==
    \/ Insert
    \/ \E t \in Tables : \E q \in QueryInputs(t) : Query(t, q)
    \/ \E t \in Tables : Drop(t)
    \/ \E t \in Tables : Reopen(t)

SpecQuery == Init /\ [][NextQuery]_vars

\* --------------------------------------------- a write that stops half way

\* How many bytes of the 16 of a pair reach the header file when the process
\* stops within insertOnHeaderFile: one byte, or the _id without the
\* position.
TornLens == {1, LONG_LONG_SIZE}

\* Table::insert up to insertOnHeaderFile, where the process stops with n
\* bytes of the pair in the header file: the data file was opened (created),
\* nothing of the registry was written, no call returned. The next process
\* constructs its Tables, each loading its header. A file is torn where its
\* pairs were complete so far.
TornInsert(t, n) ==
    /\ pc = "idle"
    /\ Len(header[t]) < MaxRows
    /\ fs[HeaderFilePath(t)].present => Len(fs[HeaderFilePath(t)].bytes) % (2 * LONG_LONG_SIZE) = 0
    /\ LET f1   == OpenAppend(fs, Path(t))
           id   == NextId(header[t])
           pos  == Tellp(f1, Path(t))
           pair == LE(id, LONG_LONG_SIZE) \o LE(pos, LONG_LONG_SIZE)
           f2   == FileWrite(OpenAppend(f1, HeaderFilePath(t)),
                             HeaderFilePath(t), SubSeq(pair, 1, n))
       IN  /\ fs' = f2
           /\ header' = [u \in Tables |-> LoadHeader(f2, u)]
    /\ result' = [op |-> "open", t |-> t, arg |-> <<>>,
                  status |-> "ok", ret |-> <<>>]
    /\ dropped' = [u \in Tables |-> FALSE]
    /\ pre' = Snapshot(t)
    /\ UNCHANGED <<pc, cur, log>>

\* The callers of a store whose process may stop within insertOnHeaderFile:
\* inserts and reopens.
NextCrash ==
    \/ Insert
    \/ \E t \in Tables, n \in TornLens : TornInsert(t, n)
    \/ \E t \in Tables : Reopen(t)

SpecCrash == Init /\ [][NextCrash]_vars

\* ----------------------------------------------------------------- claims

\* row_count(): the length of the in-memory header.
RowCount(t) == Len(header[t])

\* The pairs of the header file of t, as a load would read them now.
OnDisk(t) == LoadHeader(fs, t)

\* C1: in every reachable state, the steps within one insert included, every
\* index entry, in memory or in the header file, lies within the data file:
\* its position plus the registry size is at most the data file's length
\* (the record is written before the entry is appended).
C1_IndexEntriesWithinDataFile ==
    \A t \in Tables :
        /\ \A i \in 1..Len(header[t]) :
              header[t][i][2] + RegistrySize(t) <= Len(fs[Path(t)].bytes)
        /\ \A i \in 1..Len(OnDisk(t)) :
              OnDisk(t)[i][2] + RegistrySize(t) <= Len(fs[Path(t)].bytes)

\* C2: after any sequence of open, insert, drop and reopen, the in-memory
\* index is sorted ascending by row id with no gaps: the entry at position i
\* (0-based) has row id i.
C2_HeaderIdsAreGapless ==
    \A t \in Tables :
        \A i \in 1..RowCount(t) : header[t][i][1] = i - 1

\* C2's case: a table reopened on a header file of two entries or more,
\* after a drop of that table's files earlier on or not.
C2_Witness ==
    \E t \in Tables :
        /\ result.op = "open" /\ result.t = t
        /\ RowCount(t) >= 2

\* C3: on a store that was opened empty, the k-th insert returns row id k-1,
\* and the ids the inserts return are strictly increasing in insertion order.
C3_MonotonicIds ==
    \A t \in Tables :
        /\ \A k \in 1..Len(log[t]) :
              log[t][k].returned => log[t][k].id = k - 1
        /\ \A j, k \in 1..Len(log[t]) :
              (j < k /\ log[t][j].returned /\ log[t][k].returned)
                  => log[t][j].id < log[t][k].id

\* C3's case: a second insert has just returned its id after a first one did.
C3_Witness ==
    \E t \in Tables :
        /\ result.op = "insert" /\ result.t = t /\ result.status = "ok"
        /\ Len(log[t]) >= 2
        /\ log[t][Len(log[t]) - 1].returned
        /\ result.ret = <<Len(log[t]) - 1>>

\* C4: read_by_id gives "not found" (the empty row, returned, not thrown) for
\* every id < 0 and every id >= row_count(), the empty store included, and
\* the row stored under the id for every id in [0, row_count()).
C4_ReadByIdTotal ==
    result.op = "getRowById" =>
        LET t  == result.t
            id == result.arg[1]
        IN  IF id < 0 \/ id >= RowCount(t)
            THEN result.status = "ok" /\ result.ret = <<>>
            ELSE /\ result.status = "ok"
                 /\ \E g \in Garbage :
                       result.ret = GetRow(fs, t, header[t][id + 1][2], g)

\* decode(encode(v)) for column col: what getRow reads back from the bytes
\* convertAndSave wrote for v.
RoundTrip(v, col) ==
    LET w == ConvertAndSave(v, col)
    IN  IF w.thrown # "none" THEN <<>> ELSE DecodeCol(w.bytes, col, 0)

\* The column codec is a lossless round trip on every value of the row.
Lossless(t, row) ==
    \A c \in 1..Len(row) :
        /\ c + 1 <= Len(SchemaCols(t))
        /\ ConvertAndSave(row[c], SchemaCols(t)[c + 1]).thrown = "none"
        /\ RoundTrip(row[c], SchemaCols(t)[c + 1]) = row[c]

\* C5: for every row id an insert returned, after any number of later
\* inserts, read_by_id(id) returns the row whose column 0 is that id and whose
\* remaining columns are exactly the values passed to that insert, in order
\* (for values the column codec round-trips without loss).
C5_ReadByIdReturnsInserted ==
    result.op = "getRowById" =>
        LET t  == result.t
            id == result.arg[1]
        IN  (/\ id >= 0 /\ id < Len(log[t])
             /\ log[t][id + 1].returned
             /\ Lossless(t, log[t][id + 1].row))
            => /\ result.status = "ok"
               /\ result.ret = <<IntText(id)>> \o log[t][id + 1].row

\* The rows of every id of t, for each content g of unwritten memory.
RowsById(f, h, t) ==
    [id \in 0..(Len(h) - 1) |-> [g \in Garbage |-> GetRowById(f, h, t, id, g)]]

\* C6: closing a store and opening a new one on the same name yields the
\* same row_count(), the same (id, offset) entry for every id and the same
\* row values as before the close.
C6_ReopenDurability ==
    [][\A t \in Tables :
          Reopen(t) =>
              /\ Len(header'[t]) = Len(header[t])
              /\ header'[t] = header[t]
              /\ RowsById(fs', header'[t], t) = RowsById(fs, header[t], t)]_vars

\* C6's case: a store holding two rows or more has been closed and opened
\* again, and each insert into it had returned.
C6_Witness ==
    \E t \in Tables :
        /\ result.op = "open" /\ result.t = t
        /\ RowCount(t) >= 2
        /\ \A k \in 1..Len(log[t]) : log[t][k].returned

\* A value of the row is no number although its column is numeric.
Unparsable(t, row) ==
    \E c \in 1..Len(row) :
        /\ c + 1 <= Len(SchemaCols(t))
        /\ SchemaCols(t)[c + 1].type # "CHAR"
        /\ ~ParseInteger(row[c]).conv

\* C7: an insert given a value that cannot be parsed into its column's type
\* reports the error and writes nothing: the data file, the header file and
\* the in-memory header are as they were before the call.
C7_FailedInsertWritesNothing ==
    (result.op = "insert" /\ Unparsable(result.t, result.arg))
        => /\ result.status # "ok"
           /\ Snapshot(result.t) = pre

\* C8: a dropped store is terminal: every insert, read_at or read_by_id on it
\* after drop() fails with InvalidState and changes nothing.
C8_DroppedIsTerminal ==
    \A t \in Tables :
        (/\ dropped[t]
         /\ result.t = t
         /\ result.op \in {"insert", "getRow", "getRowById"})
        => /\ result.status = "InvalidState"
           /\ Snapshot(t) = pre

\* C9: immediately after drop(), from any open state with any number of
\* rows, row_count() is 0 and the data file and the header file are absent.
C9_DropLeavesNothing ==
    result.op = "drop" =>
        /\ RowCount(result.t) = 0
        /\ ~fs[Path(result.t)].present
        /\ ~fs[HeaderFilePath(result.t)].present

\* C9's case: drop() has just run on a store that held two rows or more.
C9_Witness ==
    /\ result.op = "drop"
    /\ pre.rows >= 2
    /\ pre.dat.present /\ pre.idx.present

\* The (i, j), 0-based index positions of inner and outer, whose chosen
\* columns hold equal decoded text.
Matches(inner, outer, ic, oc, g) ==
    { m \in (0..(RowCount(inner) - 1)) \X (0..(RowCount(outer) - 1)) :
        GetRow(fs, inner, header[inner][m[1] + 1][2], g)[ic + 1]
            = GetRow(fs, outer, header[outer][m[2] + 1][2], g)[oc + 1] }

\* The number of matches before m in inner-then-outer order.
Rank(M, m) ==
    Cardinality({ n \in M : n[1] < m[1] \/ (n[1] = m[1] /\ n[2] < m[2]) })

\* C10: full_join returns exactly the pairs (inner offset, outer offset) of
\* the (inner row i, outer row j) whose chosen columns have equal decoded
\* text: none missing, none extra, none repeated, in ascending i then
\* ascending j; with an empty inner or outer store the result is empty.
C10_FullJoinExact ==
    result.op = "nestedLoopJoin" =>
        LET inner == result.t
            outer == result.arg[1]
            oc    == ColPosition(outer, result.arg[2])
            ic    == ColPosition(inner, result.arg[3])
            ret   == result.ret
        IN  /\ result.status = "ok"
            /\ \E g \in Garbage :
                  LET M == Matches(inner, outer, ic, oc, g)
                  IN  /\ Len(ret) = Cardinality(M)
                      /\ \A m \in M :
                            ret[Rank(M, m) + 1]
                                = << header[inner][m[1] + 1][2],
                                     header[outer][m[2] + 1][2] >>
            /\ \A a, b \in 1..Len(ret) : a # b => ret[a] # ret[b]
            /\ (RowCount(inner) = 0 \/ RowCount(outer) = 0) => ret = <<>>

\* C10's case: the join of the doc comment, Person.dre = Worked.id_person,
\* over two stores of two rows each whose inserts all returned, pairing some
\* of the rows and not others.
C10_Witness ==
    /\ result.op = "nestedLoopJoin"
    /\ result.t = "Person" /\ result.arg = <<"Worked", "id_person", "dre">>
    /\ RowCount("Person") >= 2 /\ RowCount("Worked") >= 2
    /\ \A t \in Tables : \A k \in 1..Len(log[t]) : log[t][k].returned
    /\ Len(result.ret) >= 2
    /\ Len(result.ret) < RowCount("Person") * RowCount("Worked")

FilePairs(t) ==
    LET b == fs[HeaderFilePath(t)].bytes
        w == 2 * LONG_LONG_SIZE
    IN  [i \in 1..(Len(b) \div w) |->
            << FromLE32(SubSeq(b, w * (i - 1) + 1, w * (i - 1) + 4)),
               FromLE32(SubSeq(b, w * (i - 1) + LONG_LONG_SIZE + 1,
                               w * (i - 1) + LONG_LONG_SIZE + 4)) >>]

\* The header file of t ends in a partial pair.
Torn(t) ==
    /\ fs[HeaderFilePath(t)].present
    /\ Len(fs[HeaderFilePath(t)].bytes) % (2 * LONG_LONG_SIZE) # 0

\* C12: a partially written index file is self-healing: when a store is
\* opened on an index file holding k complete pairs followed by a partial
\* trailing pair, the next insert is assigned id k, and the index loaded by
\* any later reopen is again sorted ascending by id with no gaps, each entry
\* carrying the offset that was assigned at its insert.
C12_TornHeaderFileHeals ==
    [][\A t \in Tables :
          /\ (\E row \in RowInputs(t) : InsertBegin(t, row))
                 /\ result.op = "open" /\ result.t = t
              => cur'.id = Len(FilePairs(t))
          /\ Reopen(t) /\ Torn(t)
              => /\ \A i \in 1..Len(header'[t]) : header'[t][i][1] = i - 1
                 /\ header'[t] = header[t]]_vars

\* C13: load on an index file holding k complete (id, offset) pairs followed
\* by fewer than 16 trailing bytes yields exactly those k pairs in file
\* order, raises no error, and on a missing or empty index file yields the
\* empty index.
C13_LoadKeepsCompletePairs ==
    result.op = "open" =>
        LET t == result.t
        IN  /\ result.status = "ok"
            /\ header[t] = FilePairs(t)
            /\ (~fs[HeaderFilePath(t)].present
                  \/ fs[HeaderFilePath(t)].bytes = <<>>) => header[t] = <<>>

\* C13's case: a store was opened on a header file of one complete pair or
\* more followed by a partial one.
C13_Witness ==
    /\ result.op = "open"
    /\ Torn(result.t)
    /\ RowCount(result.t) >= 1
    /\ Len(fs[HeaderFilePath(result.t)].bytes)
          < 2 * LONG_LONG_SIZE * (RowCount(result.t) + 1)

\* C14: after every completed operation of an open store (insert, drop, any
\* read or join), the sequence of (id, offset) pairs in the index file
\* equals the in-memory index, entry for entry and in the same order; each
\* insert adds exactly one pair to both.
C14_HeaderFileMirrorsHeader ==
    (pc = "idle" /\ result.op # "none") =>
        /\ \A t \in Tables : header[t] = FilePairs(t)
        /\ result.op = "insert" =>
              /\ RowCount(result.t) = pre.rows + 1
              /\ Len(FilePairs(result.t))
                    = pre.idx.size \div (2 * LONG_LONG_SIZE) + 1

\* C15: read_at(offset) fails with RecordReadError whenever the data file is
\* shorter than offset + record size (offset out of range or truncated
\* record) instead of returning a row, and the store stays usable: a later
\* read_at of a valid offset still returns that row.
C15_ShortReadFails ==
    result.op = "getRow" =>
        LET t   == result.t
            pos == result.arg[1]
        IN  IF Len(fs[Path(t)].bytes) < pos + RegistrySize(t)
            THEN result.status = "RecordReadError" /\ result.ret = <<>>
            ELSE /\ result.status = "ok"
                 /\ \E g \in Garbage : result.ret = GetRow(fs, t, pos, g)

\* a is the beginning of b.
IsPrefix(a, b) == Len(a) <= Len(b) /\ SubSeq(b, 1, Len(a)) = a

\* C16: insert is append-only: it leaves every existing index entry (id and
\* offset) and every byte already in the data file and index file unchanged,
\* so the offset assigned to a row never changes; no operation other than
\* drop removes an index entry.
C16_InsertAppendsOnly ==
    [][/\ (pc # "idle" \/ pc' # "idle") /\ Insert =>
             /\ \A t \in Tables : IsPrefix(header[t], header'[t])
             /\ \A p \in Paths :
                   /\ fs[p].present => fs'[p].present
                   /\ IsPrefix(fs[p].bytes, fs'[p].bytes)
       /\ \A t \in Tables : IsPrefix(header[t], header'[t]) \/ Drop(t)]_vars

\* C16's case: an insert into a table that held a row or more has returned,
\* its record behind the bytes the data file held before.
C16_Witness ==
    \E t \in Tables :
        /\ result.op = "insert" /\ result.t = t /\ result.status = "ok"
        /\ RowCount(t) >= 2
        /\ pre.rows = RowCount(t) - 1
        /\ pre.dat.size > 0 /\ pre.idx.size > 0
        /\ Len(fs[Path(t)].bytes) > pre.dat.size

\* C17: query with a WHERE clause on _id equal to k, on a store that
\* contains row id k, returns a cursor holding exactly that one row;
\* query("SELECT *") returns all rows of the store.
C17_QueryReturnsRows ==
    result.op = "query" =>
        LET t == result.t
        IN  /\ result.status = "ok"
            /\ \E g \in Garbage :
                  IF result.arg[1] = <<>>
                  THEN result.ret =
                         [i \in 1..RowCount(t) |->
                             GetRow(fs, t, header[t][i][2], g)]
                  ELSE result.ret =
                         << GetRowById(fs, header[t], t, result.arg[3][1], g).ret >>

\* Every insert into t since its files were last absent, the running one
\* included, was given one value per column of the schema but the _id.
OneValuePerColumn(t) ==
    /\ \A k \in 1..Len(log[t]) :
          Len(log[t][k].row) = Len(SchemaCols(t)) - 1
    /\ cur.t = t => Len(cur.given) = Len(SchemaCols(t)) - 1

\* C18: records lie back-to-back in the data file: when every insert
\* supplies exactly one value per non-id schema column, the offset recorded
\* for row id k is k * (header width + payload width), offsets are strictly
\* increasing with index position, and after each completed insert the
\* data-file length is row_count() * (header width + payload width).
C18_RecordsBackToBack ==
    \A t \in Tables :
        OneValuePerColumn(t) =>
            /\ \A i \in 1..RowCount(t) :
                  header[t][i] = <<i - 1, (i - 1) * RegistrySize(t)>>
            /\ \A i, j \in 1..RowCount(t) :
                  i < j => header[t][i][2] < header[t][j][2]
            /\ (pc = "idle" /\ result.op = "insert" /\ result.t = t
                   /\ result.status = "ok")
                => Len(fs[Path(t)].bytes) = RowCount(t) * RegistrySize(t)

\* The registry_size field of the registry header written at pos of t's
\* data file.
RegistrySizeField(t, pos) ==
    FromLE32(SubSeq(fs[Path(t)].bytes, pos + TABLE_NAME_SIZE + 1,
                    pos + TABLE_NAME_SIZE + REGISTRY_SIZE_SIZE))

\* C19: every record appended by an insert that returns a row id occupies
\* exactly the number of bytes stored in its header's record_size field
\* (header width + sum of all column widths), for every row insert accepts,
\* including a row with fewer values than the schema has non-id columns; so
\* every index offset is the start of a complete record.
C19_RecordFillsRegistrySize ==
    (pc = "idle" /\ result.op = "insert" /\ result.status = "ok") =>
        LET t   == result.t
            pos == header[t][result.ret[1] + 1][2]
        IN  /\ RegistrySizeField(t, pos) = RegistrySize(t)
            /\ Len(fs[Path(t)].bytes) - pos = RegistrySizeField(t, pos)

\* The operations that read rows, by the name the result carries.
ReadOps == {"getRow", "getRowById", "nestedLoopJoin", "indexNestedLoopJoin"}

\* C20: read_at, read_by_id, full_join and seeded_join are read-only: each
\* leaves the in-memory index, the data file and the index file of every
\* store involved unchanged, whether it returns a row, returns not-found or
\* fails.
C20_ReadsChangeNothing ==
    [][(pc = "idle" /\ pc' = "idle" /\ result'.op \in ReadOps)
          => header' = header /\ fs' = fs]_vars

\* C20's case: each of the four has run on stores holding rows: a read by a
\* position or an id of the header, an id past the header (which throws),
\* and both joins with pairs to return.
C20_Witness ==
    /\ result.op \in ReadOps
    /\ RowCount(result.t) >= 2
    /\ \/ result.op = "getRowById" /\ result.status = "out_of_range"
       \/ result.op = "getRow" /\ result.ret # <<>>
       \/ result.op = "indexNestedLoopJoin" /\ result.ret # <<>>

\* C21: insert performs no uniqueness check: inserting the same values twice
\* succeeds both times and yields two different row ids at two different
\* offsets, and read_by_id of each id returns those same values.
C21_DuplicatesAreLegal ==
    \A t \in Tables :
        \A j, k \in 1..Len(log[t]) :
            (j < k /\ log[t][j].row = log[t][k].row /\ log[t][j].returned) =>
                /\ log[t][k].returned
                /\ log[t][j].id # log[t][k].id
                /\ header[t][log[t][j].id + 1][2] # header[t][log[t][k].id + 1][2]
                /\ (/\ result.op = "getRowById" /\ result.t = t
                     /\ result.arg[1] \in {log[t][j].id, log[t][k].id})
                    => /\ result.status = "ok"
                       /\ result.ret = <<IntText(result.arg[1])>> \o log[t][j].row

====
